---- MODULE Spec2Model ----
(***************************************************************************)
(* Model of python_formatter.py: the five text-rewriting stages            *)
(* (remove_useless_fstrings, add_spaces_inside_brackets, add_semicolons,   *)
(* collapse_multiline_blocks, collapse_blank_lines), check_indentation and *)
(* the command-line driver.                                                *)
(*                                                                         *)
(* A text is a sequence of one-character strings; "\n" separates lines.    *)
(* Positions are 1-based; a search that fails yields 0 (Python: -1).       *)
(***************************************************************************)
EXTENDS Integers, Sequences, FiniteSets, TLC

\* ------------------------------------------------------------------------
\* Python str primitives used by the formatter
\* ------------------------------------------------------------------------

\* characters removed by str.strip()/lstrip()/rstrip() and matched by \s
Whitespace == {" ", "\t", "\n", "\r", "\f"}

\* characters matched by \w (used by the \b of the f-string pattern)
WordChars == {"a", "b", "c", "d", "e", "f", "g", "h", "i", "j", "k", "l", "m",
              "n", "o", "p", "q", "r", "s", "t", "u", "v", "w", "x", "y", "z",
              "A", "B", "C", "D", "E", "F", "G", "H", "I", "J", "K", "L", "M",
              "N", "O", "P", "Q", "R", "S", "T", "U", "V", "W", "X", "Y", "Z",
              "0", "1", "2", "3", "4", "5", "6", "7", "8", "9", "_"}

SetMin(S) == CHOOSE m \in S : \A n \in S : m <= n

SetMax(S) == CHOOSE m \in S : \A n \in S : m >= n

\* s[i:] with i a 0-based Python index, i.e. the text after the first i characters
From(s, i) == SubSeq(s, i + 1, Len(s))

\* s[:i]
UpTo(s, i) == SubSeq(s, 1, i)

\* p occurs in s starting at position i
MatchAt(s, p, i) == /\ i >= 1
                    /\ i + Len(p) - 1 <= Len(s)
                    /\ \A k \in 1..Len(p) : s[i + k - 1] = p[k]

startswith(s, p) == MatchAt(s, p, 1)

endswith(s, p) == MatchAt(s, p, Len(s) - Len(p) + 1)

\* any of the suffixes of a tuple argument of str.endswith
endswithAny(s, ps) == \E p \in ps : endswith(s, p)

\* first position >= i at which p occurs in s, 0 if none
FindFrom(s, p, i) ==
    LET hits == {k \in i..(Len(s) - Len(p) + 1) : MatchAt(s, p, k)}
    IN  IF hits = {} THEN 0 ELSE SetMin(hits)

find(s, p) == FindFrom(s, p, 1)

rfind(s, p) ==
    LET hits == {k \in 1..(Len(s) - Len(p) + 1) : MatchAt(s, p, k)}
    IN  IF hits = {} THEN 0 ELSE SetMax(hits)

\* the operator "p in s"
contains(s, p) == find(s, p) # 0

RECURSIVE CountFrom(_, _, _)
CountFrom(s, p, i) ==
    LET k == FindFrom(s, p, i)
    IN  IF k = 0 THEN 0 ELSE 1 + CountFrom(s, p, k + Len(p))

\* str.count: number of non-overlapping occurrences, scanning left to right
count(s, p) == CountFrom(s, p, 1)

lstrip(s) ==
    LET keep == {k \in 1..Len(s) : s[k] \notin Whitespace}
    IN  IF keep = {} THEN <<>> ELSE SubSeq(s, SetMin(keep), Len(s))

rstrip(s) ==
    LET keep == {k \in 1..Len(s) : s[k] \notin Whitespace}
    IN  IF keep = {} THEN <<>> ELSE SubSeq(s, 1, SetMax(keep))

strip(s) == lstrip(rstrip(s))

RECURSIVE replace(_, _, _)
\* str.replace( old, new ), old non-empty
replace(s, old, new) ==
    LET k == find(s, old)
    IN  IF k = 0 THEN s
        ELSE UpTo(s, k - 1) \o new \o replace(From(s, k - 1 + Len(old)), old, new)

RECURSIVE split(_)
\* code.split( '\n' )
split(s) ==
    LET k == find(s, <<"\n">>)
    IN  IF k = 0 THEN <<s>> ELSE <<UpTo(s, k - 1)>> \o split(From(s, k))

RECURSIVE join(_, _)
\* sep.join( parts )
join(sep, parts) ==
    IF Len(parts) = 0 THEN <<>>
    ELSE IF Len(parts) = 1 THEN parts[1]
    ELSE parts[1] \o sep \o join(sep, Tail(parts))

\* s[ :-1 ]
DropLast(s) == SubSeq(s, 1, Len(s) - 1)

\* len( line ) - len( line.lstrip() )
IndentOf(line) == Len(line) - Len(lstrip(line))

\* the two triple-quote delimiters, in the order the code tries them
TripleDouble == <<"\"", "\"", "\"">>

TripleSingle == <<"'", "'", "'">>

TripleQuotes == <<TripleDouble, TripleSingle>>

\* ------------------------------------------------------------------------
\* add_semicolons
\* ------------------------------------------------------------------------

\* the tuple ( '( ', '[ ', '{ ' ) tested by stripped.endswith
OpenWithSpace == {<<"(", " ">>, <<"[", " ">>, <<"{", " ">>}

\* the endings without the terminator itself
KeepEndingsNoTerminator == {<<":">>, <<",">>, <<".">>, <<"\\">>,
                            <<" ", "o", "r">>, <<" ", "a", "n", "d">>}

\* endings after which no terminator is added
KeepEndings == {<<";">>, <<":">>, <<",">>, <<".">>, <<"\\">>,
                <<" ", "o", "r">>, <<" ", "a", "n", "d">>}

control_keywords == << <<"r", "a", "i", "s", "e">>,
                       <<"r", "e", "t", "u", "r", "n">>,
                       <<"b", "r", "e", "a", "k">>,
                       <<"c", "o", "n", "t", "i", "n", "u", "e">>,
                       <<"p", "a", "s", "s">>,
                       <<"y", "i", "e", "l", "d">> >>

\* stripped.count( '( ' ) + stripped.count( '[ ' ) + stripped.count( '{ ' )
open_count(stripped) == count(stripped, <<"(", " ">>) + count(stripped, <<"[", " ">>)
                          + count(stripped, <<"{", " ">>)

\* stripped.count( ' )' ) + stripped.count( ' ]' ) + stripped.count( ' }' )
close_count(stripped) == count(stripped, <<" ", ")">>) + count(stripped, <<" ", "]">>)
                           + count(stripped, <<" ", "}">>)

RECURSIVE CommentScan(_, _, _, _)
\* the character scan for a '#' outside a quoted string; i is the position
\* to look at, the result the position of the '#' or 0
CommentScan(stripped, i, in_string, string_char) ==
    IF i > Len(stripped) THEN 0
    ELSE LET char == stripped[i]
             unescaped == (i = 1) \/ (stripped[i - 1] # "\\")
         IN  IF ~in_string
             THEN IF char \in {"\"", "'"}
                  THEN IF unescaped
                       THEN CommentScan(stripped, i + 1, TRUE, char)
                       ELSE CommentScan(stripped, i + 1, FALSE, string_char)
                  ELSE IF char = "#" THEN i
                  ELSE CommentScan(stripped, i + 1, FALSE, string_char)
             ELSE IF char = string_char /\ unescaped
                  THEN CommentScan(stripped, i + 1, FALSE, "")
                  ELSE CommentScan(stripped, i + 1, TRUE, string_char)

\* comment_pos, 1-based (0: no inline comment found)
comment_pos(stripped) == CommentScan(stripped, 1, FALSE, "")

\* the loop over control_keywords
ends_with_control(stripped, lstripped) ==
    \E n \in 1..Len(control_keywords) :
        LET keyword == control_keywords[n]
            hash == find(stripped, <<"#">>)
            code_only == rstrip(IF hash = 0 THEN stripped ELSE UpTo(stripped, hash - 1))
        IN  /\ startswith(lstripped, keyword \o <<" ">>) \/ lstripped = keyword
            /\ \/ endswith(code_only, keyword)
               \/ contains(code_only, keyword \o <<" ">>)
               \/ contains(code_only, keyword \o <<"(">>)

\* mutant: the block-header test without the look at the next line
followed_by_block_any(lines, line_idx, line, stripped) == endswith(stripped, <<" ", ")">>)

\* the block-header test: the line ends with ' )' and the next line is a
\* more-indented code line
followed_by_block(lines, line_idx, line, stripped) ==
    /\ endswith(stripped, <<" ", ")">>)
    /\ line_idx + 1 <= Len(lines)
    /\ LET next_line == lines[line_idx + 1]
           next_stripped == strip(next_line)
       IN  /\ next_stripped # <<>>
           /\ ~startswith(next_stripped, <<"#">>)
           /\ IndentOf(next_line) > IndentOf(line)

\* the text appended to result for a code line that is outside brackets:
\* everything from the inline-comment test to the final append
terminate_line(lines, line_idx, line, stripped, lstripped) ==
    LET cpos == comment_pos(stripped)
    IN  IF cpos > 1
        THEN LET code_part == rstrip(UpTo(stripped, cpos - 1))
                 comment_part == From(stripped, cpos - 1)
             IN  IF startswith(lstrip(code_part), <<"r", "a", "i", "s", "e">>)
                 THEN code_part \o <<" ">> \o comment_part
                 ELSE IF endswithAny(code_part, KeepEndings)
                 THEN stripped
                 ELSE code_part \o <<";", " ">> \o comment_part
        ELSE IF ends_with_control(stripped, lstripped) THEN stripped
        ELSE IF endswithAny(stripped, KeepEndings) THEN stripped
        ELSE IF followed_by_block(lines, line_idx, line, stripped) THEN stripped
        ELSE stripped \o <<";">>

\* the state of the loop of add_semicolons before its first line
SemiInit == [result |-> <<>>, in_multiline_comment |-> FALSE,
             multiline_quote |-> <<>>, bracket_depth |-> 0]

\* one iteration of the loop of add_semicolons, on lines[ line_idx ]
SemiStep(st, lines, line_idx) ==
    LET line == lines[line_idx]
        stripped == rstrip(line)
        lstripped == lstrip(stripped)
        emit(t) == [st EXCEPT !.result = Append(@, t)]
    IN  IF stripped = <<>> THEN emit(line)
        ELSE IF ~st.in_multiline_comment
                /\ (startswith(lstripped, TripleDouble) \/ startswith(lstripped, TripleSingle))
        THEN LET q == UpTo(lstripped, 3)
             IN  [st EXCEPT !.result = Append(@, line),
                            !.multiline_quote = q,
                            !.in_multiline_comment = ~(count(stripped, q) >= 2)]
        ELSE IF st.in_multiline_comment
        THEN [st EXCEPT !.result = Append(@, line),
                        !.in_multiline_comment = ~contains(stripped, st.multiline_quote)]
        ELSE IF startswith(lstripped, <<"#">>) THEN emit(line)
        ELSE IF startswith(lstripped, <<"@">>)
        THEN emit(IF endswith(stripped, <<";">>) THEN DropLast(stripped) ELSE stripped)
        ELSE LET s1 == IF endswith(stripped, <<":", ";">>) THEN DropLast(stripped) ELSE stripped
                 depth == st.bracket_depth + open_count(stripped) - close_count(stripped)
             IN  IF endswithAny(s1, OpenWithSpace)
                 THEN [st EXCEPT !.result = Append(@, s1), !.bracket_depth = depth]
                 ELSE LET s2 == IF \E o \in OpenWithSpace : contains(s1, o)
                                THEN replace(replace(replace(s1,
                                         <<"(", " ">>, <<"(", " ">>),
                                         <<"[", " ">>, <<"[", " ">>),
                                         <<"{", " ">>, <<"{", " ">>)
                                ELSE s1
                          was_inside_brackets == st.bracket_depth > 0
                      IN  IF was_inside_brackets \/ endswithAny(s2, OpenWithSpace)
                          THEN [st EXCEPT
                                 !.result = Append(@,
                                     IF endswith(s2, <<";">>) /\ ~endswith(s2, <<":", ";">>)
                                     THEN DropLast(s2) ELSE s2),
                                 !.bracket_depth = depth]
                          ELSE [st EXCEPT
                                 !.result = Append(@,
                                     terminate_line(lines, line_idx, line, s2, lstripped)),
                                 !.bracket_depth = depth]

RECURSIVE SemiLoop(_, _, _)
\* the loop of add_semicolons from line line_idx on
SemiLoop(st, lines, line_idx) ==
    IF line_idx > Len(lines) THEN st
    ELSE SemiLoop(SemiStep(st, lines, line_idx), lines, line_idx + 1)

\* the loop with blank lines skipped instead of appended
add_semicolons_skipping_blanks(code) ==
    join(<<"\n">>, SelectSeq(SemiLoop(SemiInit, split(code), 1).result,
                             LAMBDA line : line # <<>>))

add_semicolons(code) == join(<<"\n">>, SemiLoop(SemiInit, split(code), 1).result)

\* ------------------------------------------------------------------------
\* collapse_multiline_blocks
\* ------------------------------------------------------------------------

\* the default of the parameter max_len
DefaultMaxLen == 200

\* the keys of open_brackets in iteration order
OpenBrackets == <<"(", "[", "{">>

\* open_brackets[ bracket ]
CloseOf(bracket) == IF bracket = "(" THEN ")" ELSE IF bracket = "[" THEN "]" ELSE "}"

\* what the span tracking at the head of the loop decides for a line seen
\* outside a span: "open" (count == 1), "closed" (count == 2) or "none";
\* quote is the delimiter that decided
RECURSIVE TripleScan(_, _)
TripleScan(stripped, n) ==
    IF n > Len(TripleQuotes) THEN [kind |-> "none", quote |-> <<>>]
    ELSE LET quote == TripleQuotes[n]
             cnt == count(stripped, quote)
         IN  IF contains(stripped, quote) /\ cnt = 1 THEN [kind |-> "open", quote |-> quote]
             ELSE IF contains(stripped, quote) /\ cnt = 2 THEN [kind |-> "closed", quote |-> quote]
             ELSE TripleScan(stripped, n + 1)

\* before.count( "'" ) - before.count( "\\'" ) and the same for '"', both even
OutsideQuotes(before) ==
    /\ (count(before, <<"'">>) - count(before, <<"\\", "'">>)) % 2 = 0
    /\ (count(before, <<"\"">>) - count(before, <<"\\", "\"">>)) % 2 = 0

RECURSIVE FindOpen(_, _, _)
\* the loop "for bracket in open_brackets"; acc is [ found_open, open_pos ]
FindOpen(line, n, acc) ==
    IF n > Len(OpenBrackets) THEN acc
    ELSE LET bracket == OpenBrackets[n]
             pos == rfind(line, <<bracket>>)
             hit == /\ pos # 0
                    /\ pos > acc.open_pos
                    /\ OutsideQuotes(UpTo(line, pos - 1))
                    /\ ~contains(From(line, pos), <<CloseOf(bracket)>>)
         IN  FindOpen(line, n + 1,
                      IF hit THEN [found_open |-> bracket, open_pos |-> pos] ELSE acc)

\* index of the first line at or after j that contains close_bracket, 0 if none
FindCloseLine(lines, j, close_bracket) ==
    LET hits == {k \in j..Len(lines) : contains(lines[k], <<close_bracket>>)}
    IN  IF hits = {} THEN 0 ELSE SetMin(hits)

\* bl.strip() for bl in block_lines
StripAll(block_lines) == [k \in 1..Len(block_lines) |-> strip(block_lines[k])]

\* only the lines between the opening and the closing line are looked at
has_comment_between(block_lines) ==
    \E k \in 2..(Len(block_lines) - 1) : contains(block_lines[k], <<"#">>)

\* any( '#' in bl for bl in block_lines[ :-1 ] )
has_comment(block_lines) ==
    \E k \in 1..(Len(block_lines) - 1) : contains(block_lines[k], <<"#">>)

\* the flattened line without what follows the closing bracket on its line
CollapsedNoSuffix(lines, i, j, open) ==
    LET line == lines[i]
        prefix == UpTo(line, open.open_pos)
        close_bracket == CloseOf(open.found_open)
        last_line == lines[j]
        close_pos == find(last_line, <<close_bracket>>)
        block_lines == <<From(line, open.open_pos)>>
                         \o SubSeq(lines, i + 1, j - 1)
                         \o <<UpTo(last_line, close_pos - 1)>>
        content == strip(join(<<" ">>, StripAll(block_lines)))
        collapsed == prefix \o <<" ">> \o content \o <<" ", close_bracket>>
    IN  [has_comment |-> has_comment(block_lines), collapsed |-> collapsed]

\* the flattened line built from lines[ i..j ], and whether it may be used
Collapsed(lines, i, j, open) ==
    LET line == lines[i]
        prefix == UpTo(line, open.open_pos)
        close_bracket == CloseOf(open.found_open)
        last_line == lines[j]
        close_pos == find(last_line, <<close_bracket>>)
        suffix == strip(From(last_line, close_pos))
        block_lines == <<From(line, open.open_pos)>>
                         \o SubSeq(lines, i + 1, j - 1)
                         \o <<UpTo(last_line, close_pos - 1)>>
        content == strip(join(<<" ">>, StripAll(block_lines)))
        collapsed == prefix \o <<" ">> \o content \o <<" ", close_bracket>>
                       \o (IF suffix # <<>> THEN <<" ">> \o suffix ELSE <<>>)
    IN  [has_comment |-> has_comment(block_lines), collapsed |-> collapsed]

\* mutant: the length test against the default instead of the parameter
fits_default(collapsed, max_len) == Len(collapsed) <= DefaultMaxLen

\* len( collapsed ) <= max_len
fits(collapsed, max_len) == Len(collapsed) <= max_len

RECURSIVE CollapseLoop(_, _, _, _, _)
\* the while loop of collapse_multiline_blocks from line i on
CollapseLoop(lines, i, in_triple, result, max_len) ==
    IF i > Len(lines) THEN result
    ELSE
    LET line == lines[i]
        stripped == lstrip(line)
        scan == TripleScan(stripped, 1)
        open == FindOpen(line, 1, [found_open |-> "", open_pos |-> 0])
    IN  IF in_triple # <<>>
        THEN CollapseLoop(lines, i + 1,
                          IF contains(line, in_triple) THEN <<>> ELSE in_triple,
                          Append(result, line), max_len)
        ELSE IF scan.kind = "open"
        THEN CollapseLoop(lines, i + 1, scan.quote, Append(result, line), max_len)
        ELSE IF scan.kind = "closed"
        THEN CollapseLoop(lines, i + 1, <<>>, Append(result, line), max_len)
        ELSE IF startswith(stripped, <<"#">>)
        THEN CollapseLoop(lines, i + 1, <<>>, Append(result, line), max_len)
        ELSE IF open.found_open # ""
        THEN LET j == FindCloseLine(lines, i + 1, CloseOf(open.found_open))
             IN  IF j # 0
                 THEN LET c == Collapsed(lines, i, j, open)
                      IN  IF ~c.has_comment /\ fits(c.collapsed, max_len)
                          THEN CollapseLoop(lines, j + 1, <<>>,
                                            Append(result, c.collapsed), max_len)
                          ELSE CollapseLoop(lines, j + 1, <<>>,
                                            result \o SubSeq(lines, i, j), max_len)
                 ELSE CollapseLoop(lines, i + 1, <<>>, Append(result, line), max_len)
        ELSE CollapseLoop(lines, i + 1, <<>>, Append(result, line), max_len)

collapse_multiline_blocks(code, max_len) ==
    join(<<"\n">>, CollapseLoop(split(code), 1, <<>>, <<>>, max_len))

\* ------------------------------------------------------------------------
\* collapse_blank_lines
\* ------------------------------------------------------------------------

RECURSIVE BlankLoop(_, _, _, _, _)
\* the for loop of collapse_blank_lines from line i on
BlankLoop(lines, i, in_triple, consecutive_blanks, result) ==
    IF i > Len(lines) THEN result
    ELSE
    LET line == lines[i]
        stripped == strip(line)
        scan == TripleScan(stripped, 1)
    IN  IF in_triple # <<>>
        THEN IF contains(line, in_triple)
             THEN BlankLoop(lines, i + 1, <<>>, 0, Append(result, line))
             ELSE BlankLoop(lines, i + 1, in_triple, consecutive_blanks, Append(result, line))
        ELSE IF scan.kind = "open"
        THEN BlankLoop(lines, i + 1, scan.quote, 0, Append(result, line))
        ELSE IF scan.kind = "closed"
        THEN BlankLoop(lines, i + 1, <<>>, 0, Append(result, line))
        ELSE IF stripped = <<>>
        THEN BlankLoop(lines, i + 1, <<>>, consecutive_blanks + 1,
                       IF consecutive_blanks + 1 = 1 THEN Append(result, line) ELSE result)
        ELSE BlankLoop(lines, i + 1, <<>>, 0, Append(result, line))

collapse_blank_lines(code) == join(<<"\n">>, BlankLoop(split(code), 1, <<>>, 0, <<>>))

\* ------------------------------------------------------------------------
\* check_indentation
\* ------------------------------------------------------------------------

\* the indentation unit added to indent_stack[ -1 ] after a block opener
IndentUnit == 4

RECURSIVE PopWhileInclusive(_, _)
\* the loop with <= for <: the level the line is on is popped as well,
\* level 0 left out
PopWhileInclusive(indent_stack, indent) ==
    IF Len(indent_stack) > 1 /\ indent <= indent_stack[Len(indent_stack)]
    THEN PopWhileInclusive(DropLast(indent_stack), indent)
    ELSE indent_stack

RECURSIVE PopWhile(_, _)
\* while indent_stack and indent < indent_stack[ -1 ]: indent_stack.pop()
PopWhile(indent_stack, indent) ==
    IF Len(indent_stack) > 0 /\ indent < indent_stack[Len(indent_stack)]
    THEN PopWhile(DropLast(indent_stack), indent)
    ELSE indent_stack

RECURSIVE IndentLoop(_, _, _, _)
\* the for loop of check_indentation from line line_num on
IndentLoop(lines, line_num, indent_stack, warnings) ==
    IF line_num > Len(lines) THEN warnings
    ELSE
    LET line == lines[line_num]
        stripped == lstrip(line)
        indent == Len(line) - Len(stripped)
        top == indent_stack[Len(indent_stack)]
        prev_stripped == rstrip(lines[line_num - 1])
    IN  IF stripped = <<>> \/ startswith(stripped, <<"#">>)
        THEN IndentLoop(lines, line_num + 1, indent_stack, warnings)
        ELSE IF line_num > 1 /\ (endswith(prev_stripped, <<":">>) \/ endswith(prev_stripped, <<":", ";">>))
        THEN IndentLoop(lines, line_num + 1,
                 IF indent > top THEN Append(indent_stack, indent) ELSE indent_stack,
                 IF indent # top + IndentUnit
                 THEN Append(warnings, [line |-> line_num, kind |-> "expected",
                                        expected |-> top + IndentUnit, got |-> indent])
                 ELSE warnings)
        ELSE IF line_num > 1 /\ indent < top
        THEN LET popped == PopWhile(indent_stack, indent)
             IN  IndentLoop(lines, line_num + 1, popped,
                     IF Len(popped) > 0 /\ indent # popped[Len(popped)]
                     THEN Append(warnings, [line |-> line_num, kind |-> "no_outer_level",
                                            got |-> indent])
                     ELSE warnings)
        ELSE IndentLoop(lines, line_num + 1, indent_stack, warnings)

check_indentation(lines) == IndentLoop(lines, 1, <<0>>, <<>>)

\* ------------------------------------------------------------------------
\* remove_useless_fstrings
\* ------------------------------------------------------------------------

\* Where the pattern  \bf( [ "\'])(((?!(?<!\\)\1).)*?)\1  matches at position
\* i: the position of the closing occurrence of group 1, or 0.  Group 1 is a
\* space followed by a space or a quote; the lazy group 2 stops at the first
\* later occurrence of group 1 and "." does not cross a line break.
FStringClose(s, i) ==
    IF /\ i + 2 <= Len(s)
       /\ s[i] = "f"
       /\ (i = 1 \/ s[i - 1] \notin WordChars)
       /\ s[i + 1] = " "
       /\ s[i + 2] \in {" ", "\"", "'"}
    THEN LET quote_char == SubSeq(s, i + 1, i + 2)
             k == FindFrom(s, quote_char, i + 3)
         IN  IF k # 0 /\ ~contains(SubSeq(s, i + 3, k - 1), <<"\n">>) THEN k ELSE 0
    ELSE 0

\* the callback replace_fstring, on the match s[ i .. k + 1 ]
replace_fstring(s, i, k) ==
    LET quote_char == SubSeq(s, i + 1, i + 2)
        content == SubSeq(s, i + 3, k - 1)
    IN  IF contains(content, <<"{", " ">>) /\ contains(content, <<" ", "}">>)
        THEN SubSeq(s, i, k + 1)
        ELSE quote_char \o content \o quote_char

RECURSIVE FStringSub(_, _)
\* re.sub( pattern, replace_fstring, code ) from position i on: the leftmost
\* match is replaced and the scan goes on after it
FStringSub(s, i) ==
    LET starts == {m \in i..Len(s) : FStringClose(s, m) # 0}
    IN  IF starts = {} THEN From(s, i - 1)
        ELSE LET m == SetMin(starts)
                 k == FStringClose(s, m)
             IN  SubSeq(s, i, m - 1) \o replace_fstring(s, m, k) \o FStringSub(s, k + 2)

remove_useless_fstrings(code) == FStringSub(code, 1)

\* ------------------------------------------------------------------------
\* add_spaces_inside_brackets
\* ------------------------------------------------------------------------

\* a pattern that is a sequence of character classes, each optional or not
Lit(c) == [chars |-> {c}, opt |-> FALSE]

Opt(c) == [chars |-> {c}, opt |-> TRUE]

Class(cs) == [chars |-> cs, opt |-> FALSE]

\* r'( ?<=[ \( \[ \{] )( ?!\s )( ?![ \ )\ ]\ } ] )'
OpenPadPattern ==
    << Opt(" "), Lit("<"), Lit("="), Class({" ", "(", "[", "{"}), Lit(" "),
       Opt(" "), Lit("!"), Class(Whitespace), Lit(" "),
       Opt(" "), Lit("!"), Class({" ", ")"}), Lit(" "), Lit("}"), Lit(" "), Lit("]"), Lit(" ") >>

\* r'( ?<!\s )( ?<![ \( \[ \{] )( ?=[ \ )\ ]\ } ] )'
ClosePadPattern ==
    << Opt(" "), Lit("<"), Lit("!"), Class(Whitespace), Lit(" "),
       Opt(" "), Lit("<"), Lit("!"), Class({" ", "(", "[", "{"}), Lit(" "),
       Opt(" "), Lit("="), Class({" ", ")"}), Lit(" "), Lit("}"), Lit(" "), Lit("]"), Lit(" ") >>

RECURSIVE PatEnd(_, _, _, _)
\* pat[ n.. ] matched against s from position k: the position after the
\* match, or 0; an optional class is tried taken first, then skipped
PatEnd(s, k, pat, n) ==
    IF n > Len(pat) THEN k
    ELSE LET e == pat[n]
             taken == IF k <= Len(s) /\ s[k] \in e.chars
                      THEN PatEnd(s, k + 1, pat, n + 1) ELSE 0
         IN  IF e.opt /\ taken = 0 THEN PatEnd(s, k, pat, n + 1) ELSE taken

RECURSIVE SubPat(_, _, _, _)
\* re.sub( pat, repl, s ) from position i on: the leftmost match is replaced
\* and the scan goes on after it
SubPat(s, i, pat, repl) ==
    LET starts == {m \in i..Len(s) : PatEnd(s, m, pat, 1) # 0}
    IN  IF starts = {} THEN From(s, i - 1)
        ELSE LET m == SetMin(starts)
             IN  SubSeq(s, i, m - 1) \o repl \o SubPat(s, PatEnd(s, m, pat, 1), pat, repl)

add_spaces_to_segment(text) ==
    SubPat(SubPat(text, 1, OpenPadPattern, <<" ">>), 1, ClosePadPattern, <<" ">>)

\* a failed match of string_pattern
NoMatch == [end |-> 0, g2 |-> <<>>, g3 |-> <<>>]

\* (?:[^"]|"(?!""))* from position k: the position where the repetition
\* stops, which is the first """ at or after k, or the end of the text
TripleDoubleBody(s, k) ==
    LET stop == FindFrom(s, TripleDouble, k)
    IN  IF stop = 0 THEN Len(s) + 1 ELSE stop

\* first alternative:  two spaces, """, body, """
StringAlt1(s, i) ==
    IF MatchAt(s, <<" ", " ">> \o TripleDouble, i)
    THEN LET k == TripleDoubleBody(s, i + 5)
         IN  IF MatchAt(s, TripleDouble, k) THEN [NoMatch EXCEPT !.end = k + 2] ELSE NoMatch
    ELSE NoMatch

RECURSIVE TripleSingleBody(_, _, _, _)
\* ( ?:[ ^']|'( ?!'' ) )*''' from position k, with backtracking; g2 and g3
\* are the groups captured by the iterations already made
TripleSingleBody(s, k, g2, g3) ==
    LET tail == {" ", "^", "'"}
        a1 == IF MatchAt(s, <<" ", ":">>, k) /\ k + 2 <= Len(s) /\ s[k + 2] \in tail
              THEN TripleSingleBody(s, k + 3, SubSeq(s, k, k + 2), g3) ELSE NoMatch
        a2 == IF MatchAt(s, <<":">>, k) /\ k + 1 <= Len(s) /\ s[k + 1] \in tail
              THEN TripleSingleBody(s, k + 2, SubSeq(s, k, k + 1), g3) ELSE NoMatch
        b1 == IF MatchAt(s, <<"'", " ", "!", "'", "'", " ", " ">>, k)
              THEN TripleSingleBody(s, k + 7, SubSeq(s, k, k + 6), SubSeq(s, k + 1, k + 5))
              ELSE NoMatch
        b2 == IF MatchAt(s, <<"'", "!", "'", "'", " ", " ">>, k)
              THEN TripleSingleBody(s, k + 6, SubSeq(s, k, k + 5), SubSeq(s, k + 1, k + 4))
              ELSE NoMatch
    IN  IF a1.end # 0 THEN a1
        ELSE IF a2.end # 0 THEN a2
        ELSE IF b1.end # 0 THEN b1
        ELSE IF b2.end # 0 THEN b2
        ELSE IF MatchAt(s, TripleSingle, k) THEN [end |-> k + 2, g2 |-> g2, g3 |-> g3]
        ELSE NoMatch

\* second alternative:  ''', the capturing repetition, '''
StringAlt2(s, i) ==
    IF MatchAt(s, TripleSingle, i) THEN TripleSingleBody(s, i + 3, <<>>, <<>>) ELSE NoMatch

RECURSIVE QuotedBody(_, _, _)
\* (?:[^q\\ ]|\\. )* from position k: the position where the repetition stops
QuotedBody(s, k, q) ==
    IF k > Len(s) THEN k
    ELSE IF s[k] \notin {q, "\\", " "} THEN QuotedBody(s, k + 1, q)
    ELSE IF s[k] = "\\" /\ k + 2 <= Len(s) /\ s[k + 2] = " " THEN QuotedBody(s, k + 3, q)
    ELSE k

\* third and fourth alternative: a quote q, the repetition, the quote q
StringAlt34(s, i, q) ==
    IF MatchAt(s, <<q>>, i)
    THEN LET k == QuotedBody(s, i + 1, q)
         IN  IF MatchAt(s, <<q>>, k) THEN [NoMatch EXCEPT !.end = k] ELSE NoMatch
    ELSE NoMatch

\* string_pattern matched at position i: the last position of the match
\* (0: no match) and the inner groups 2 and 3 (<<>>: None)
string_pattern(s, i) ==
    LET m1 == StringAlt1(s, i)
        m2 == StringAlt2(s, i)
        m3 == StringAlt34(s, i, "\"")
    IN  IF m1.end # 0 THEN m1
        ELSE IF m2.end # 0 THEN m2
        ELSE IF m3.end # 0 THEN m3
        ELSE StringAlt34(s, i, "'")

RECURSIVE SplitAndPad(_, _)
\* re.split( string_pattern, code ) and the loop over parts, fused, from
\* position from on: the non-string part up to the leftmost match is padded,
\* group 1 is copied, group 2 (an even index of parts) is padded, group 3
\* (an odd index) is copied
SplitAndPad(s, from) ==
    LET starts == {i \in from..Len(s) : string_pattern(s, i).end # 0}
    IN  IF starts = {} THEN add_spaces_to_segment(From(s, from - 1))
        ELSE LET i == SetMin(starts)
                 m == string_pattern(s, i)
             IN  add_spaces_to_segment(SubSeq(s, from, i - 1))
                    \o SubSeq(s, i, m.end)
                    \o (IF m.g2 # <<>> THEN add_spaces_to_segment(m.g2) ELSE <<>>)
                    \o m.g3
                    \o SplitAndPad(s, m.end + 1)

add_spaces_inside_brackets(code) == SplitAndPad(code, 1)

\* ------------------------------------------------------------------------
\* Input texts
\* ------------------------------------------------------------------------

\* longest enumerated text, in lines
MaxLines == 2

\* the lines the enumerated texts are built from
Lines == {
    \* x = [  (opens a multi-line block)
    <<"x", " ", "=", " ", "[">>,
    \*     1,  (block content)
    <<" ", " ", " ", " ", "1", ",">>,
    \* ]  (closes the block)
    <<"]">>,
    \* f( a )  (a complete statement with padded brackets)
    <<"f", "(", " ", "a", " ", ")">>,
    \* """  (docstring delimiter)
    <<"\"", "\"", "\"">>,
    \* d = """  (triple-quoted string opened after other code)
    <<"d", " ", "=", " ", "\"", "\"", "\"">>,
    \* { (x)  (unbalanced and unpadded brackets)
    <<"{", " ", "(", "x", ")">>,
    \* pass;  (directive with a terminator)
    <<"p", "a", "s", "s", ";">>,
    \* return x # c  (directive with an inline comment)
    <<"r", "e", "t", "u", "r", "n", " ", "x", " ", "#", " ", "c">>,
    \* (empty)  (blank line)
    <<>>,
    \* # c  (comment line)
    <<"#", " ", "c">>,
    \* @d;  (decorator with a terminator)
    <<"@", "d", ";">>,
    \*     y = 1  (indented statement)
    <<" ", " ", " ", " ", "y", " ", "=", " ", "1">>,
    \* f "{ "  (the shape the f-string pattern matches)
    <<"f", " ", "\"", "{", " ", "\"">>,
    \* x = [ # c  (opens a block, with an inline comment)
    <<"x", " ", "=", " ", "[", " ", "#", " ", "c">>
  }

\* every text of 1..MaxLines lines of Lines
EnumeratedTexts ==
    UNION {{join(<<"\n">>, ls) : ls \in [1..n -> Lines]} : n \in 1..MaxLines}

\* the five-line list of the smoke test:  my_list = [\n    1,\n    2,\n    3\n]
SmokeList ==
    <<"m", "y", "_", "l", "i", "s", "t", " ", "=", " ", "[", "\n", " ", " ",
      " ", " ", "1", ",", "\n", " ", " ", " ", " ", "2", ",", "\n", " ", " ",
      " ", " ", "3", "\n", "]">>

\* an already padded one-line statement:  x = ( 1==1 )
PaddedStatement ==
    <<"x", " ", "=", " ", "(", " ", "1", "=", "=", "1", " ", ")">>

\* a triple-quoted string opened after other code, with a line inside it:  doc = """\nhas (x)\n"""\ny = 2
AssignedTriple ==
    <<"d", "o", "c", " ", "=", " ", "\"", "\"", "\"", "\n", "h", "a", "s",
      " ", "(", "x", ")", "\n", "\"", "\"", "\"", "\n", "y", " ", "=", " ",
      "2">>

\* a docstring with brackets and quoted text:  """\nf "{ "\n[ x\n"""
DocstringText ==
    <<"\"", "\"", "\"", "\n", "f", " ", "\"", "{", " ", "\"", "\n", "[", " ",
      "x", "\n", "\"", "\"", "\"">>

\* a block whose flattened line has 22 characters:  value = [\n    1,\n    2 ] # t
LongBlock ==
    <<"v", "a", "l", "u", "e", " ", "=", " ", "[", "\n", " ", " ", " ", " ",
      "1", ",", "\n", " ", " ", " ", " ", "2", " ", "]", " ", "#", " ", "t">>

\* empty and non-empty unpadded bracket pairs:  a = []\nb = (1, 2)\nc = {k: d[0]}
BracketPairs ==
    <<"a", " ", "=", " ", "[", "]", "\n", "b", " ", "=", " ", "(", "1", ",",
      " ", "2", ")", "\n", "c", " ", "=", " ", "{", "k", ":", " ", "d", "[",
      "0", "]", "}">>

\* the text the opening-bracket pattern matches:  t <=( !  !) } ] u
OpenPadText ==
    <<"t", " ", "<", "=", "(", " ", "!", " ", " ", "!", ")", " ", "}", " ",
      "]", " ", "u">>

\* the text the closing-bracket pattern matches:  t <! <!( =) } ] u
ClosePadText ==
    <<"t", " ", "<", "!", " ", "<", "!", "(", " ", "=", ")", " ", "}", " ",
      "]", " ", "u">>

\* a triple-single-quoted text whose inner group is captured:  ''':^'''
CapturedTriple ==
    <<"'", "'", "'", ":", "^", "'", "'", "'">>

\* wrongly indented blocks:  if a:\n  b\n      c:\n    d
BadIndent ==
    <<"i", "f", " ", "a", ":", "\n", " ", " ", "b", "\n", " ", " ", " ", " ",
      " ", " ", "c", ":", "\n", " ", " ", " ", " ", "d">>

\* an identifier that starts with raise, with an inline comment:  raises = 1 # c
RaisesComment ==
    <<"r", "a", "i", "s", "e", "s", " ", "=", " ", "1", " ", "#", " ", "c">>

\* a line ending with an unpadded ) followed by a more-indented line:  f()\n    y = 1
EmptyCallHeader ==
    <<"f", "(", ")", "\n", " ", " ", " ", " ", "y", " ", "=", " ", "1">>

\* lines that end with punctuation or a boolean operator:  a = 1;\nif a:\n    b,\nc.\nd \\\ne or\nf and\ng = 2; # c
KeptEndings ==
    <<"a", " ", "=", " ", "1", ";", "\n", "i", "f", " ", "a", ":", "\n", " ",
      " ", " ", " ", "b", ",", "\n", "c", ".", "\n", "d", " ", "\\", "\n",
      "e", " ", "o", "r", "\n", "f", " ", "a", "n", "d", "\n", "g", " ", "=",
      " ", "2", ";", " ", "#", " ", "c">>

\* a padded bracket left open at the end of its line:  x = f( a\n    b )
PaddedOpen ==
    <<"x", " ", "=", " ", "f", "(", " ", "a", "\n", " ", " ", " ", " ", "b",
      " ", ")">>

\* a block whose closing line opens a further block:  a = [\n1 ] + f(\n2 )
ChainedBlock ==
    <<"a", " ", "=", " ", "[", "\n", "1", " ", "]", " ", "+", " ", "f", "(",
      "\n", "2", " ", ")">>

\* a block that contains a bracket pair of the same kind:  x = [\n    [1],\n    2 ]
NestedBlock ==
    <<"x", " ", "=", " ", "[", "\n", " ", " ", " ", " ", "[", "1", "]", ",",
      "\n", " ", " ", " ", " ", "2", " ", "]">>

\* a block with a comment on a line before the closing line:  x = [\n    1, # c\n    2 ]
MiddleComment ==
    <<"x", " ", "=", " ", "[", "\n", " ", " ", " ", " ", "1", ",", " ", "#",
      " ", "c", "\n", " ", " ", " ", " ", "2", " ", "]">>

\* a block with a comment on its closing line only:  x = [\n    1,\n    2 # c ]
ClosingComment ==
    <<"x", " ", "=", " ", "[", "\n", " ", " ", " ", " ", "1", ",", "\n", " ",
      " ", " ", " ", "2", " ", "#", " ", "c", " ", "]">>

\* a balanced pair of which only the closing bracket is padded:  f(a )
HalfPadded ==
    <<"f", "(", "a", " ", ")">>

\* a line with three triple-quote delimiters, the third opening a string:  d = """a""" + """\n\n\nx = [\n]
ThreeDelimiters ==
    <<"d", " ", "=", " ", "\"", "\"", "\"", "a", "\"", "\"", "\"", " ", "+",
      " ", "\"", "\"", "\"", "\n", "\n", "\n", "x", " ", "=", " ", "[", "\n",
      "]">>

\* a dedent to an open level, then one to no open level:  if a:\n    if b:\n        c\n    d\n  e
DedentText ==
    <<"i", "f", " ", "a", ":", "\n", " ", " ", " ", " ", "i", "f", " ", "b",
      ":", "\n", " ", " ", " ", " ", " ", " ", " ", " ", "c", "\n", " ", " ",
      " ", " ", "d", "\n", " ", " ", "e">>

\* a comment between a block opener and its first code line:  if a:\n# c\n  b
CommentAfterOpener ==
    <<"i", "f", " ", "a", ":", "\n", "#", " ", "c", "\n", " ", " ", "b">>

\* an f-string without a placeholder:  x = f"hello"
PlainFString ==
    <<"x", " ", "=", " ", "f", "\"", "h", "e", "l", "l", "o", "\"">>

\* an f-string with a placeholder:  y = f"{a}"
PlaceholderFString ==
    <<"y", " ", "=", " ", "f", "\"", "{", "a", "}", "\"">>

\* texts that exercise one particular path each
ScenarioTexts == {SmokeList, PaddedStatement, AssignedTriple, DocstringText, LongBlock,
                  BracketPairs, OpenPadText, ClosePadText, CapturedTriple, BadIndent,
                  RaisesComment, EmptyCallHeader, KeptEndings, PaddedOpen,
                  ChainedBlock, NestedBlock, MiddleComment, ClosingComment,
                  HalfPadded, ThreeDelimiters, DedentText, CommentAfterOpener,
                  PlainFString, PlaceholderFString}

\* the texts given to the formatter
Inputs == EnumeratedTexts \cup ScenarioTexts

\* ------------------------------------------------------------------------
\* The command-line driver ( __main__ )
\* ------------------------------------------------------------------------

\* the formatting pipeline, in the order __main__ applies it
format(code) ==
    collapse_blank_lines(
        collapse_multiline_blocks(
            add_semicolons(add_spaces_inside_brackets(remove_useless_fstrings(code))),
            DefaultMaxLen))

\* the paths that can be named on the command line
FileNames == {"a.py", "b.py"}

\* most files named in one invocation
MaxFiles == 2

\* what the file system does with a file: "ok", open for reading raises
\* ("unreadable"), open for writing raises ("open_fails"), or the file is
\* opened and truncated and the write raises ("write_fails")
Faults == {"ok", "unreadable", "open_fails", "write_fails"}

\* the contents the named files can have
FileTexts == {PaddedStatement, BadIndent, SmokeList}

\* sequences of distinct file names, at most MaxFiles long
FileLists ==
    {fl \in UNION {[1..n -> FileNames] : n \in 0..MaxFiles} :
        \A i, j \in 1..Len(fl) : i # j => fl[i] # fl[j]}

VARIABLES
    files,        \* args.files
    in_place,     \* args.in_place
    disk,         \* content of each file
    original,     \* content of each file when the process started
    fault,        \* how the file system treats each file
    stdin,        \* the text on standard input
    pc,           \* "stdin", "loop", "format", "check", "output", "exited"
    fileIdx,      \* position of filepath in args.files
    code,         \* the text read
    formatted,    \* the text after the pipeline
    stdout,       \* what was written to standard output, one entry per write
    stderr,       \* what was written to standard error, one entry per print
    exit_status,  \* -1 while running, then the status of the process
    fn_name,      \* stage applied last when a stage is exercised on its own
    fn_in,        \* the text that stage was given
    fn_out,       \* the text that stage returned
    fn_max_len,   \* the max_len that stage was given
    fn_steps      \* number of stages applied so far

mainVars == <<files, in_place, disk, original, fault, stdin, pc, fileIdx, code,
              formatted, stdout, stderr, exit_status>>

fnVars == <<fn_name, fn_in, fn_out, fn_max_len, fn_steps>>

vars == <<files, in_place, disk, original, fault, stdin, pc, fileIdx, code,
          formatted, stdout, stderr, exit_status,
          fn_name, fn_in, fn_out, fn_max_len, fn_steps>>

\* no stage is exercised on its own
FnIdle ==
    /\ fn_name = "none"
    /\ fn_in = <<>>
    /\ fn_out = <<>>
    /\ fn_max_len = DefaultMaxLen
    /\ fn_steps = 0

\* the driver is not running
MainIdle ==
    /\ files = <<>>
    /\ in_place = FALSE
    /\ disk = [f \in FileNames |-> <<>>]
    /\ original = disk
    /\ fault = [f \in FileNames |-> "ok"]
    /\ stdin = <<>>
    /\ pc = "idle"
    /\ fileIdx = 1
    /\ code = <<>>
    /\ formatted = <<>>
    /\ stdout = <<>>
    /\ stderr = <<>>
    /\ exit_status = -1

\* the process after parse_args: either files are named, each with some
\* content and some behaviour of the file system, or none is named and the
\* text comes from standard input
Init ==
    /\ files \in FileLists
    /\ \/ /\ files # <<>>
          /\ in_place \in BOOLEAN
          /\ disk \in [FileNames -> FileTexts]
          /\ fault \in [FileNames -> Faults]
          /\ \A f \in FileNames :
                (\A k \in 1..Len(files) : files[k] # f)
                    => disk[f] = PaddedStatement /\ fault[f] = "ok"
          /\ stdin = <<>>
          /\ pc = "loop"
       \/ /\ files = <<>>
          /\ in_place = FALSE
          /\ disk = [f \in FileNames |-> PaddedStatement]
          /\ fault = [f \in FileNames |-> "ok"]
          /\ stdin \in Inputs
          /\ pc = "stdin"
    /\ original = disk
    /\ fileIdx = 1
    /\ code = <<>>
    /\ formatted = <<>>
    /\ stdout = <<>>
    /\ stderr = <<>>
    /\ exit_status = -1
    /\ FnIdle

\* filepath in the body of the loop over args.files
filepath == files[fileIdx]

\* with open( filepath, 'r' ) as f: code = f.read()
ReadFile ==
    /\ pc = "loop"
    /\ fileIdx <= Len(files)
    /\ fault[filepath] # "unreadable"
    /\ code' = disk[filepath]
    /\ pc' = "format"
    /\ UNCHANGED <<files, in_place, disk, original, fault, stdin, fileIdx,
                   formatted, stdout, stderr, exit_status>>
    /\ UNCHANGED fnVars

\* mutant: the except branch of the read prints the message and goes on
\* with the next file
ReadFileErrorContinues ==
    /\ pc = "loop"
    /\ fileIdx <= Len(files)
    /\ fault[files[fileIdx]] = "unreadable"
    /\ stderr' = Append(stderr, [kind |-> "read_error", file |-> files[fileIdx]])
    /\ fileIdx' = fileIdx + 1
    /\ UNCHANGED <<files, in_place, disk, original, fault, stdin, pc,
                   code, formatted, stdout, exit_status>>
    /\ UNCHANGED <<fn_name, fn_in, fn_out, fn_max_len, fn_steps>>

\* the except branch of the read: the message, then sys.exit( 1 )
ReadFileError ==
    /\ pc = "loop"
    /\ fileIdx <= Len(files)
    /\ fault[filepath] = "unreadable"
    /\ stderr' = Append(stderr, [kind |-> "read_error", file |-> filepath])
    /\ exit_status' = 1
    /\ pc' = "exited"
    /\ UNCHANGED <<files, in_place, disk, original, fault, stdin, fileIdx,
                   code, formatted, stdout>>
    /\ UNCHANGED fnVars

\* code = sys.stdin.read()
ReadStdin ==
    /\ pc = "stdin"
    /\ code' = stdin
    /\ pc' = "format"
    /\ UNCHANGED <<files, in_place, disk, original, fault, stdin, fileIdx,
                   formatted, stdout, stderr, exit_status>>
    /\ UNCHANGED fnVars

\* the five assignments to formatted
ApplyPipeline ==
    /\ pc = "format"
    /\ formatted' = format(code)
    /\ pc' = "check"
    /\ UNCHANGED <<files, in_place, disk, original, fault, stdin, fileIdx,
                   code, stdout, stderr, exit_status>>
    /\ UNCHANGED fnVars

\* the name a message carries: the path, or "<stdin>" when no file is named
Origin == IF files = <<>> THEN "<stdin>" ELSE filepath

\* the warnings are printed and a text that draws one is not put out
CheckIndentationBlocks ==
    /\ pc = "check"
    /\ LET warnings == check_indentation(split(formatted))
       IN  /\ stderr' = stderr \o [k \in 1..Len(warnings) |->
                           [kind |-> "warning", file |-> Origin, warning |-> warnings[k]]]
           /\ pc' = IF warnings = <<>> THEN "output" ELSE "exited"
           /\ exit_status' = IF warnings = <<>> THEN exit_status ELSE 0
    /\ UNCHANGED <<files, in_place, disk, original, fault, stdin, fileIdx,
                   code, formatted, stdout>>
    /\ UNCHANGED fnVars

\* warnings = check_indentation( ... ) and the loop that prints them
CheckIndentation ==
    /\ pc = "check"
    /\ LET warnings == check_indentation(split(formatted))
       IN  stderr' = stderr \o [k \in 1..Len(warnings) |->
                        [kind |-> "warning", file |-> Origin, warning |-> warnings[k]]]
    /\ pc' = "output"
    /\ UNCHANGED <<files, in_place, disk, original, fault, stdin, fileIdx,
                   code, formatted, stdout, exit_status>>
    /\ UNCHANGED fnVars

\* with open( filepath, 'w' ) as f: f.write( formatted ), both succeeding
WriteInPlace ==
    /\ pc = "output"
    /\ files # <<>>
    /\ in_place
    /\ fault[filepath] \notin {"open_fails", "write_fails"}
    /\ disk' = [disk EXCEPT ![filepath] = formatted]
    /\ fileIdx' = fileIdx + 1
    /\ pc' = "loop"
    /\ UNCHANGED <<files, in_place, original, fault, stdin, code, formatted,
                   stdout, stderr, exit_status>>
    /\ UNCHANGED fnVars

\* open( filepath, 'w' ) raises: the file is not touched; the except branch
\* prints the message and exits
WriteOpenError ==
    /\ pc = "output"
    /\ files # <<>>
    /\ in_place
    /\ fault[filepath] = "open_fails"
    /\ stderr' = Append(stderr, [kind |-> "write_error", file |-> filepath])
    /\ exit_status' = 1
    /\ pc' = "exited"
    /\ UNCHANGED <<files, in_place, disk, original, fault, stdin, fileIdx,
                   code, formatted, stdout>>
    /\ UNCHANGED fnVars

\* open( filepath, 'w' ) truncates the file and f.write raises after none or
\* half of the text has reached the file; the except branch prints and exits
WriteError ==
    /\ pc = "output"
    /\ files # <<>>
    /\ in_place
    /\ fault[filepath] = "write_fails"
    /\ \E n \in {0, Len(formatted) \div 2} :
           disk' = [disk EXCEPT ![filepath] = UpTo(formatted, n)]
    /\ stderr' = Append(stderr, [kind |-> "write_error", file |-> filepath])
    /\ exit_status' = 1
    /\ pc' = "exited"
    /\ UNCHANGED <<files, in_place, original, fault, stdin, fileIdx,
                   code, formatted, stdout>>
    /\ UNCHANGED fnVars

\* sys.stdout.write( formatted ) in the loop over args.files
PrintFile ==
    /\ pc = "output"
    /\ files # <<>>
    /\ ~in_place
    /\ stdout' = Append(stdout, [file |-> filepath, text |-> formatted])
    /\ fileIdx' = fileIdx + 1
    /\ pc' = "loop"
    /\ UNCHANGED <<files, in_place, disk, original, fault, stdin, code,
                   formatted, stderr, exit_status>>
    /\ UNCHANGED fnVars

\* sys.stdout.write( formatted ) of the stdin branch, the last statement
PrintStdin ==
    /\ pc = "output"
    /\ files = <<>>
    /\ stdout' = Append(stdout, [file |-> "<stdin>", text |-> formatted])
    /\ exit_status' = 0
    /\ pc' = "exited"
    /\ UNCHANGED <<files, in_place, disk, original, fault, stdin, fileIdx,
                   code, formatted, stderr>>
    /\ UNCHANGED fnVars

\* the loop over args.files is exhausted and the script ends
Finish ==
    /\ pc = "loop"
    /\ fileIdx > Len(files)
    /\ exit_status' = 0
    /\ pc' = "exited"
    /\ UNCHANGED <<files, in_place, disk, original, fault, stdin, fileIdx,
                   code, formatted, stdout, stderr>>
    /\ UNCHANGED fnVars

Next ==
    \/ ReadFile
    \/ ReadFileError
    \/ ReadStdin
    \/ ApplyPipeline
    \/ CheckIndentation
    \/ WriteInPlace
    \/ WriteOpenError
    \/ WriteError
    \/ PrintFile
    \/ PrintStdin
    \/ Finish

Spec == Init /\ [][Next]_vars

\* ------------------------------------------------------------------------
\* Each stage applied on its own to a text
\* ------------------------------------------------------------------------

\* most stages applied one after the other to one text
MaxApply == 1

\* a max_len small enough for the texts to exceed
SmallMaxLen == 12

\* the values of max_len given to collapse_multiline_blocks
MaxLens == {SmallMaxLen, DefaultMaxLen}

\* a text is given; no stage has been applied yet
FnInit ==
    /\ MainIdle
    /\ fn_name = "none"
    /\ fn_in = <<>>
    /\ fn_out \in Inputs
    /\ fn_max_len = DefaultMaxLen
    /\ fn_steps = 0

\* the bookkeeping of one application: name is applied to fn_out, giving out
Applied(name, out, max_len) ==
    /\ fn_steps < MaxApply
    /\ fn_name' = name
    /\ fn_in' = fn_out
    /\ fn_out' = out
    /\ fn_max_len' = max_len
    /\ fn_steps' = fn_steps + 1
    /\ UNCHANGED mainVars

CallRemoveUselessFstrings ==
    Applied("remove_useless_fstrings", remove_useless_fstrings(fn_out), fn_max_len)

CallAddSpacesInsideBrackets ==
    Applied("add_spaces_inside_brackets", add_spaces_inside_brackets(fn_out), fn_max_len)

CallAddSemicolons ==
    Applied("add_semicolons", add_semicolons(fn_out), fn_max_len)

CallCollapseMultilineBlocks ==
    \E max_len \in MaxLens :
        Applied("collapse_multiline_blocks",
                collapse_multiline_blocks(fn_out, max_len), max_len)

CallCollapseBlankLines ==
    Applied("collapse_blank_lines", collapse_blank_lines(fn_out), fn_max_len)

FnNext ==
    \/ CallRemoveUselessFstrings
    \/ CallAddSpacesInsideBrackets
    \/ CallAddSemicolons
    \/ CallCollapseMultilineBlocks
    \/ CallCollapseBlankLines

SpecFn == FnInit /\ [][FnNext]_vars

\* ------------------------------------------------------------------------
\* Reference notions the properties are stated with
\* ------------------------------------------------------------------------

RECURSIVE RefSpanScan(_, _, _)
\* the delimiter of the triple-quoted string that is open after s[ p.. ] has
\* been read from left to right, open being the one open before (<<>>: none)
RefSpanScan(s, p, open) ==
    IF p > Len(s) THEN open
    ELSE IF open = <<>>
    THEN IF MatchAt(s, TripleDouble, p) THEN RefSpanScan(s, p + 3, TripleDouble)
         ELSE IF MatchAt(s, TripleSingle, p) THEN RefSpanScan(s, p + 3, TripleSingle)
         ELSE RefSpanScan(s, p + 1, open)
    ELSE IF MatchAt(s, open, p) THEN RefSpanScan(s, p + 3, <<>>)
    ELSE RefSpanScan(s, p + 1, open)

\* the delimiter of the triple-quoted string open at the start of line k
OpenBeforeLine(lines, k) == RefSpanScan(join(<<"\n">>, SubSeq(lines, 1, k - 1)), 1, <<>>)

\* line k lies fully inside a triple-quoted string: the string is open at
\* the start of the line, is not closed on it and is closed on a later line
FullyInside(lines, k) ==
    LET q == OpenBeforeLine(lines, k)
    IN  /\ q # <<>>
        /\ ~contains(lines[k], q)
        /\ \E j \in (k + 1)..Len(lines) : contains(lines[j], q)

RECURSIVE CodePositionsFrom(_, _, _)
\* the positions p.. of s that are outside quoted string literals, q being
\* the quote open before p ("": none)
CodePositionsFrom(s, p, q) ==
    IF p > Len(s) THEN {}
    ELSE IF q = ""
    THEN IF s[p] \in {"\"", "'"} THEN CodePositionsFrom(s, p + 1, s[p])
         ELSE {p} \cup CodePositionsFrom(s, p + 1, "")
    ELSE IF s[p] = "\\" THEN CodePositionsFrom(s, p + 2, q)
    ELSE IF s[p] = q THEN CodePositionsFrom(s, p + 1, "")
    ELSE CodePositionsFrom(s, p + 1, q)

CodePositions(s) == CodePositionsFrom(s, 1, "")

\* the characters of s at the positions in P, in order
Restrict(s, P) ==
    LET keep == {p \in 1..Len(s) : p \in P}
        nth(n) == CHOOSE p \in keep : Cardinality({r \in keep : r < p}) = n - 1
    IN  [n \in 1..Cardinality(keep) |-> s[nth(n)]]

\* the text of the line of s that precedes position p
LineBefore(s, p) ==
    LET breaks == {r \in 1..(p - 1) : s[r] = "\n"}
    IN  SubSeq(s, IF breaks = {} THEN 1 ELSE SetMax(breaks) + 1, p - 1)

\* the first token of lstripped is the word kw
FirstTokenIs(lstripped, kw) ==
    /\ startswith(lstripped, kw)
    /\ Len(lstripped) = Len(kw) \/ lstripped[Len(kw) + 1] \notin WordChars

\* the code of a line: what precedes its inline comment, if it has one
CodePart(line) ==
    LET c == comment_pos(line) IN rstrip(IF c = 0 THEN line ELSE UpTo(line, c - 1))

\* lines i..j are a docstring: no string is open before line i, line i starts
\* with a triple-quote delimiter and the string it opens is closed on line j
IsDocstring(lines, i, j) ==
    /\ OpenBeforeLine(lines, i) = <<>>
    /\ \E q \in {TripleDouble, TripleSingle} :
          /\ startswith(lstrip(lines[i]), q)
          /\ LET rest == From(lstrip(lines[i]), 3)
             IN  IF i = j THEN contains(rest, q)
                 ELSE /\ ~contains(rest, q)
                      /\ \A k \in (i + 1)..(j - 1) : ~contains(lines[k], q)
                      /\ contains(lines[j], q)

RECURSIVE Aligned(_, _, _)
\* out is ins with some runs of two or more consecutive lines each replaced
\* by one line of at most max_len characters, every other line kept, in order
Aligned(ins, out, max_len) ==
    IF out = <<>> THEN ins = <<>>
    ELSE \/ /\ ins # <<>>
            /\ ins[1] = out[1]
            /\ Aligned(Tail(ins), Tail(out), max_len)
         \/ /\ Len(out[1]) <= max_len
            /\ \E k \in 2..Len(ins) : Aligned(SubSeq(ins, k + 1, Len(ins)), Tail(out), max_len)

\* ------------------------------------------------------------------------
\* Properties
\* ------------------------------------------------------------------------

\* C1: the pipeline is idempotent: formatting the formatted text again
\* changes nothing
C1_Idempotent == pc \in {"check", "output"} => format(formatted) = formatted

\* my_list = [ 1, 2, 3 ];
SmokeListCollapsed ==
    <<"m", "y", "_", "l", "i", "s", "t", " ", "=", " ", "[", " ", "1", ",",
      " ", "2", ",", " ", "3", " ", "]", ";">>

\* C2: the five-line list of the smoke test is formatted to the one line
\* my_list = [ 1, 2, 3 ];
C2_SmokeList ==
    (pc \in {"check", "output"} /\ code = SmokeList) => formatted = SmokeListCollapsed

\* x = ( 1==1 );
PaddedStatementTerminated ==
    <<"x", " ", "=", " ", "(", " ", "1", "=", "=", "1", " ", ")", ";">>

\* C3: x = ( 1==1 ) is formatted to x = ( 1==1 ); the padding is kept and
\* one terminator is appended; on standard input that is all that is written
C3_PaddedStatement ==
    /\ (pc \in {"check", "output"} /\ code = PaddedStatement)
          => formatted = PaddedStatementTerminated
    /\ (pc = "exited" /\ files = <<>> /\ stdin = PaddedStatement)
          => stdout = <<[file |-> "<stdin>", text |-> PaddedStatementTerminated]>>

\* the statement was read from standard input and the process has ended
C3_Witness == pc = "exited" /\ files = <<>> /\ stdin = PaddedStatement

\* C4: after add_spaces_inside_brackets every bracket outside a string
\* literal that has content next to it on its line is separated from that
\* content by exactly one space, an empty pair is left as it is, and only
\* spaces outside string literals were added
C4_BracketsPadded ==
    fn_name = "add_spaces_inside_brackets" =>
        LET code_at == CodePositions(fn_out)
            opening == {"(", "[", "{"}
            closing == {")", "]", "}"}
        IN  /\ \A p \in code_at :
                 (fn_out[p] \in opening /\ p < Len(fn_out) /\ fn_out[p + 1] # "\n")
                    => \/ fn_out[p + 1] \in closing
                       \/ /\ fn_out[p + 1] = " "
                          /\ p + 2 <= Len(fn_out) => fn_out[p + 2] # " "
            /\ \A p \in code_at :
                 (fn_out[p] \in closing /\ strip(LineBefore(fn_out, p)) # <<>>)
                    => \/ fn_out[p - 1] \in opening
                       \/ /\ fn_out[p - 1] = " "
                          /\ fn_out[p - 2] # " "
            /\ SelectSeq(fn_out, LAMBDA c : c # " ") = SelectSeq(fn_in, LAMBDA c : c # " ")
            /\ Restrict(fn_out, (1..Len(fn_out)) \ code_at)
                  = Restrict(fn_in, (1..Len(fn_in)) \ CodePositions(fn_in))

\* C5: add_semicolons leaves every line that lies fully inside a
\* triple-quoted string unchanged, wherever on its line the string was opened
C5_SpanLinesKept ==
    fn_name = "add_semicolons" =>
        LET ins == split(fn_in)
            out == split(fn_out)
        IN  /\ Len(out) = Len(ins)
            /\ \A k \in 1..Len(ins) : FullyInside(ins, k) => out[k] = ins[k]

\* C6: a docstring that contains an opening bracket comes out of the
\* pipeline as the same lines, byte for byte
C6_DocstringKept ==
    pc \in {"check", "output"} =>
        LET ins == split(code)
            out == split(formatted)
        IN  \A i \in 1..Len(ins) : \A j \in i..Len(ins) :
                (/\ IsDocstring(ins, i, j)
                 /\ \E k \in i..j : \E b \in {"(", "[", "{"} : contains(ins[k], <<b>>))
                => \E m \in 1..Len(out) :
                      /\ m + (j - i) <= Len(out)
                      /\ SubSeq(out, m, m + (j - i)) = SubSeq(ins, i, j)

\* C7: add_semicolons puts out without a terminator every line outside a
\* string whose first token is a directive keyword or the decorator marker
C7_DirectivesBare ==
    fn_name = "add_semicolons" =>
        LET ins == split(fn_in)
            out == split(fn_out)
        IN  /\ Len(out) = Len(ins)
            /\ \A k \in 1..Len(ins) :
                 (/\ OpenBeforeLine(ins, k) = <<>>
                  /\ \/ \E n \in 1..Len(control_keywords) :
                            FirstTokenIs(lstrip(ins[k]), control_keywords[n])
                     \/ startswith(lstrip(ins[k]), <<"@">>))
                 => ~endswith(CodePart(out[k]), <<";">>)

\* C8: collapse_multiline_blocks replaces lines only by a flattened line of
\* at most max_len characters; a block that does not fit is put out as its
\* original lines
C8_LengthGuard ==
    fn_name = "collapse_multiline_blocks" =>
        Aligned(split(fn_in), split(fn_out), fn_max_len)

\* a block that would be collapsed under the default max_len was left as it
\* was because its flattened line is longer than the max_len given
C8_Witness ==
    /\ fn_name = "collapse_multiline_blocks"
    /\ fn_max_len = SmallMaxLen
    /\ fn_out = fn_in
    /\ collapse_multiline_blocks(fn_in, DefaultMaxLen) # fn_in

\* reading or writing file f raises in this invocation
Fails(f) ==
    \/ fault[f] = "unreadable"
    \/ in_place /\ fault[f] \in {"open_fails", "write_fails"}

\* the formatted text of file f was written to it or to standard output
Delivered(f) ==
    IF in_place THEN disk[f] = format(original[f])
    ELSE \E n \in 1..Len(stdout) : stdout[n] = [file |-> f, text |-> format(original[f])]

\* C9: when the process has ended, every named file whose own read and write
\* do not fail has been formatted and written or printed
C9_OthersProcessed ==
    pc = "exited" => \A k \in 1..Len(files) : ~Fails(files[k]) => Delivered(files[k])

\* C10: a failing read or write of the current file is followed at once by a
\* diagnostic naming that file on standard error and the end of the process
\* with a non-zero status, and standard output holds nothing for that file
C10_ErrorExits ==
    [][(\/ pc = "loop" /\ fileIdx <= Len(files) /\ fault[filepath] = "unreadable"
        \/ pc = "output" /\ files # <<>> /\ Fails(filepath))
       => /\ pc' = "exited"
          /\ exit_status' > 0
          /\ Len(stderr') = Len(stderr) + 1
          /\ stderr'[Len(stderr')].file = filepath
          /\ stderr'[Len(stderr')].kind \in {"read_error", "write_error"}
          /\ \A n \in 1..Len(stdout') : stdout'[n].file # filepath]_vars

\* the second of two files could not be written in place: the process has
\* ended with status 1 after the first file was replaced
C10_Witness ==
    /\ pc = "exited"
    /\ exit_status = 1
    /\ Len(files) = 2
    /\ fileIdx = 2
    /\ stderr # <<>>
    /\ stderr[Len(stderr)] = [kind |-> "write_error", file |-> files[2]]
    /\ disk[files[1]] # original[files[1]]

\* the text the process is given for the name f of a message or a write
GivenText(f) == IF f = "<stdin>" THEN stdin ELSE original[f]

\* C11: with --in-place, whenever the process has stopped, each named file
\* holds its original text or its complete formatted text
C11_WholeFiles ==
    (pc = "exited" /\ in_place) =>
        \A k \in 1..Len(files) :
            disk[files[k]] \in {original[files[k]], format(original[files[k]])}

\* C12: indentation warnings go to standard error only and never change or
\* hold back the output: every text on standard output is the formatted
\* text of what was read, every warning on standard error is one that
\* check_indentation returned for that text, and a run without a failing
\* read or write delivers the formatted text of everything it was given
C12_WarningsAside ==
    /\ \A n \in 1..Len(stdout) : stdout[n].text = format(GivenText(stdout[n].file))
    /\ \A n \in 1..Len(stderr) :
          stderr[n].kind = "warning" =>
              LET warnings == check_indentation(split(format(GivenText(stderr[n].file))))
              IN  \E k \in 1..Len(warnings) : warnings[k] = stderr[n].warning
    /\ (pc = "exited" /\ files = <<>>)
          => stdout = <<[file |-> "<stdin>", text |-> format(stdin)]>>
    /\ (pc = "exited" /\ files # <<>> /\ exit_status = 0)
          => \A k \in 1..Len(files) : Delivered(files[k])

\* a file whose formatted text draws a warning was printed, and a text
\* from standard input that draws a warning was printed
C12_Witness ==
    /\ pc = "exited"
    /\ exit_status = 0
    /\ stdout # <<>>
    /\ \E n \in 1..Len(stderr) : stderr[n].kind = "warning"

Openers == {"(", "[", "{"}

Closers == {")", "]", "}"}

\* position of the first '#' of line that is outside a string literal, or 0
HashPos(line) ==
    LET hits == {p \in CodePositions(line) : line[p] = "#"}
    IN  IF hits = {} THEN 0 ELSE SetMin(hits)

\* the code of a line with its indentation: what precedes the comment
CodeText(line) ==
    rstrip(IF HashPos(line) = 0 THEN line ELSE UpTo(line, HashPos(line) - 1))

\* the comment of a line, from its '#' on
CommentText(line) == From(rstrip(line), HashPos(line) - 1)

\* opening minus closing brackets in the code of a line, string literals
\* and the comment left out
BracketDelta(line) ==
    LET c == CodeText(line)
        at == CodePositions(c)
    IN  Cardinality({p \in at : c[p] \in Openers}) - Cardinality({p \in at : c[p] \in Closers})

RECURSIVE DepthAfter(_, _)
\* the bracket nesting depth at the end of line k
DepthAfter(lines, k) ==
    IF k = 0 THEN 0
    ELSE DepthAfter(lines, k - 1)
           + (IF OpenBeforeLine(lines, k) = <<>> THEN BracketDelta(lines[k]) ELSE 0)

\* line k is a code line: outside a triple-quoted string, with code on it
IsCodeLine(lines, k) ==
    /\ OpenBeforeLine(lines, k) = <<>>
    /\ CodeText(lines[k]) # <<>>
    /\ \A q \in {TripleDouble, TripleSingle} : ~startswith(lstrip(lines[k]), q)

\* the output line has a terminator the input line did not have
TerminatorAdded(in_line, out_line) == count(out_line, <<";">>) > count(in_line, <<";">>)

\* the code of line ends with the word kw
EndsWithWord(line, kw) ==
    LET c == CodeText(line)
    IN  /\ endswith(c, kw)
        /\ Len(c) = Len(kw) \/ c[Len(c) - Len(kw)] \notin WordChars

\* the code of line ends with punctuation that makes a terminator redundant
EndsRedundant(line) ==
    \/ \E e \in {";", ":", ",", ".", "\\"} : endswith(CodeText(line), <<e>>)
    \/ EndsWithWord(line, <<"o", "r">>)
    \/ EndsWithWord(line, <<"a", "n", "d">>)

\* the first token of line is a directive keyword or the decorator marker
IsDirective(line) ==
    \/ \E n \in 1..Len(control_keywords) : FirstTokenIs(lstrip(line), control_keywords[n])
    \/ startswith(lstrip(line), <<"@">>)

\* C13: add_semicolons appends no terminator to a code line at whose end
\* the bracket nesting depth is greater than 0, padded brackets or not
C13_NoneInsideBrackets ==
    fn_name = "add_semicolons" =>
        LET ins == split(fn_in)
            out == split(fn_out)
        IN  /\ Len(out) = Len(ins)
            /\ \A k \in 1..Len(ins) :
                 (IsCodeLine(ins, k) /\ DepthAfter(ins, k) > 0)
                    => ~TerminatorAdded(ins[k], out[k])

\* C14: add_semicolons puts out without a trailing terminator a code line
\* whose last non-whitespace character is an opening bracket
C14_NoneAfterOpener ==
    fn_name = "add_semicolons" =>
        LET ins == split(fn_in)
            out == split(fn_out)
        IN  /\ Len(out) = Len(ins)
            /\ \A k \in 1..Len(ins) :
                 LET s == rstrip(ins[k])
                 IN  (/\ IsCodeLine(ins, k)
                      /\ s = CodeText(ins[k])
                      /\ Len(s) \in CodePositions(s)
                      /\ s[Len(s)] \in Openers)
                     => ~endswith(rstrip(out[k]), <<";">>)

C16_BeforeComment ==
    fn_name = "add_semicolons" =>
        LET ins == split(fn_in)
            out == split(fn_out)
        IN  /\ Len(out) = Len(ins)
            /\ \A k \in 1..Len(ins) :
                 (IsCodeLine(ins, k) /\ HashPos(ins[k]) > 1)
                    => LET code_part == CodeText(ins[k])
                           comment_part == CommentText(ins[k])
                           terminated == code_part \o <<";", " ">> \o comment_part
                       IN  /\ TerminatorAdded(ins[k], out[k]) => out[k] = terminated
                           /\ FirstTokenIs(lstrip(code_part), control_keywords[1])
                                 => ~TerminatorAdded(ins[k], out[k])
                           /\ (/\ DepthAfter(ins, k - 1) = 0
                               /\ DepthAfter(ins, k) = 0
                               /\ ~EndsRedundant(ins[k])
                               /\ ~IsDirective(ins[k]))
                                 => out[k] = terminated

\* C17: add_semicolons appends no terminator to a line that ends with a
\* closing parenthesis and is followed at once by a more-indented code line,
\* whether a space precedes the parenthesis or not
C17_BlockHeaderBare ==
    fn_name = "add_semicolons" =>
        LET ins == split(fn_in)
            out == split(fn_out)
        IN  /\ Len(out) = Len(ins)
            /\ \A k \in 1..(Len(ins) - 1) :
                 (/\ IsCodeLine(ins, k)
                  /\ rstrip(ins[k]) = CodeText(ins[k])
                  /\ endswith(CodeText(ins[k]), <<")">>)
                  /\ DepthAfter(ins, k) = 0
                  /\ IsCodeLine(ins, k + 1)
                  /\ IndentOf(ins[k + 1]) > IndentOf(ins[k]))
                 => ~TerminatorAdded(ins[k], out[k])

\* C18: collapse_multiline_blocks is idempotent: applied to its own output
\* with the same max_len it changes nothing
C18_CollapseIdempotent ==
    fn_name = "collapse_multiline_blocks" =>
        collapse_multiline_blocks(fn_out, fn_max_len) = fn_out

\* the code characters of a line: string literals and the comment left out
CodeChars(line) == Restrict(CodeText(line), CodePositions(CodeText(line)))

\* the bracket b is left open on line: no closing bracket of its kind
\* follows its last occurrence in the code of the line
LeftOpen(line, b) ==
    LET c == CodeChars(line)
        at == {p \in 1..Len(c) : c[p] = b}
    IN  at # {} /\ \A p \in (SetMax(at) + 1)..Len(c) : c[p] # CloseOf(b)

RECURSIVE ScanClose(_, _, _, _)
\* the nesting depth of brackets of the kind of b after c[ p.. ] has been
\* read at depth depth, or 0 as soon as the depth has come down to 0
ScanClose(c, p, b, depth) ==
    IF p > Len(c) THEN depth
    ELSE IF c[p] = b THEN ScanClose(c, p + 1, b, depth + 1)
    ELSE IF c[p] = CloseOf(b)
    THEN IF depth = 1 THEN 0 ELSE ScanClose(c, p + 1, b, depth - 1)
    ELSE ScanClose(c, p + 1, b, depth)

RECURSIVE MatchLine(_, _, _, _)
\* the line at or after j that holds the closing bracket matching a bracket
\* b open at depth depth before line j, or 0
MatchLine(lines, j, b, depth) ==
    IF j > Len(lines) THEN 0
    ELSE LET d == ScanClose(CodeChars(lines[j]), 1, b, depth)
         IN  IF d = 0 THEN j ELSE MatchLine(lines, j + 1, b, d)

RECURSIVE SpanAligned(_, _, _, _)
\* out[ n.. ] is ins[ i.. ] with some spans replaced by one line each, a span
\* running from a line that leaves a bracket open to the line that holds the
\* matching closing bracket
SpanAligned(ins, i, out, n) ==
    IF n > Len(out) THEN i > Len(ins)
    ELSE /\ i <= Len(ins)
         /\ \/ /\ ins[i] = out[n]
               /\ SpanAligned(ins, i + 1, out, n + 1)
            \/ /\ ins[i] # out[n]
               /\ \E b \in Openers :
                     /\ LeftOpen(ins[i], b)
                     /\ LET j == MatchLine(ins, i + 1, b, 1)
                        IN  j # 0 /\ SpanAligned(ins, j + 1, out, n + 1)

\* C19: the span collapse_multiline_blocks flattens ends at the closing
\* bracket that matches the opening bracket which started it, inner pairs of
\* the same kind counted
C19_MatchingClose ==
    fn_name = "collapse_multiline_blocks" =>
        SpanAligned(split(fn_in), 1, split(fn_out), 1)

\* s without its spaces
Unspaced(s) == SelectSeq(s, LAMBDA c : c # " ")

RECURSIVE CommentFreeAligned(_, _, _, _)
\* out[ n.. ] is ins[ i.. ] with some runs of lines replaced by one line
\* each that holds the same text but for spaces, each run starting at an
\* opening bracket and having no '#' from that bracket up to its last line
CommentFreeAligned(ins, i, out, n) ==
    IF n > Len(out) THEN i > Len(ins)
    ELSE /\ i <= Len(ins)
         /\ \/ /\ ins[i] = out[n]
               /\ CommentFreeAligned(ins, i + 1, out, n + 1)
            \/ \E j \in (i + 1)..Len(ins) :
                  /\ \E p \in 1..Len(ins[i]) :
                        /\ ins[i][p] \in Openers
                        /\ startswith(out[n], UpTo(ins[i], p))
                        /\ ~contains(From(ins[i], p), <<"#">>)
                  /\ \A k \in (i + 1)..(j - 1) : ~contains(ins[k], <<"#">>)
                  /\ Unspaced(out[n]) = Unspaced(join(<<>>, SubSeq(ins, i, j)))
                  /\ CommentFreeAligned(ins, j + 1, out, n + 1)

\* x = [ 1, 2 # c ]
ClosingCommentCollapsed ==
    <<"x", " ", "=", " ", "[", " ", "1", ",", " ", "2", " ", "#", " ", "c",
      " ", "]">>

\* value = [ 1, 2 ] # t
LongBlockCollapsed ==
    <<"v", "a", "l", "u", "e", " ", "=", " ", "[", " ", "1", ",", " ", "2",
      " ", "]", " ", "#", " ", "t">>

\* C20: collapse_multiline_blocks flattens no span that has a '#' on a
\* buffered line other than the last, such a span is put out as its
\* original lines, and a '#' on the closing line alone does not prevent the
\* collapse
C20_CommentBlocks ==
    fn_name = "collapse_multiline_blocks" =>
        /\ CommentFreeAligned(split(fn_in), 1, split(fn_out), 1)
        /\ fn_in = MiddleComment => fn_out = MiddleComment
        /\ (fn_in = ClosingComment /\ fn_max_len = DefaultMaxLen)
              => fn_out = ClosingCommentCollapsed
        /\ (fn_in = LongBlock /\ fn_max_len = DefaultMaxLen)
              => fn_out = LongBlockCollapsed

\* a block short enough to be collapsed was put out as it was because of
\* the comment on its second line
C20_Witness ==
    /\ fn_name = "collapse_multiline_blocks"
    /\ fn_max_len = DefaultMaxLen
    /\ fn_in = MiddleComment
    /\ fn_out = MiddleComment

\* C21: on malformed nesting, more closing than opening brackets,
\* add_semicolons puts the lines of the offending region out unchanged
C21_MalformedKept ==
    fn_name = "add_semicolons" =>
        LET ins == split(fn_in)
            out == split(fn_out)
        IN  /\ Len(out) = Len(ins)
            /\ \A k \in 1..Len(ins) :
                 (IsCodeLine(ins, k) /\ DepthAfter(ins, k) < 0) => out[k] = ins[k]

\* bracket_depth after the first k lines
bracket_depth_after(lines, k) == SemiLoop(SemiInit, SubSeq(lines, 1, k), 1).bracket_depth

\* the brackets of the lines are balanced and no line ends below depth 0
WellNested(lines) ==
    /\ \A k \in 1..Len(lines) : DepthAfter(lines, k) >= 0
    /\ DepthAfter(lines, Len(lines)) = 0

\* C22: on input with balanced, well nested brackets the counter
\* bracket_depth of add_semicolons is never negative after a line and is 0
\* after every line that closes all brackets opened so far, padded or not
C22_DepthCounter ==
    fn_name = "add_semicolons" =>
        LET ins == split(fn_in)
        IN  WellNested(ins) =>
                \A k \in 1..Len(ins) :
                    /\ bracket_depth_after(ins, k) >= 0
                    /\ DepthAfter(ins, k) = 0 => bracket_depth_after(ins, k) = 0

\* the stage applied last tracks triple-quoted strings line by line
TracksSpans == fn_name \in {"collapse_multiline_blocks", "collapse_blank_lines"}

\* C23: in collapse_multiline_blocks and collapse_blank_lines a line seen
\* outside a span with an odd number of occurrences of a triple-quote
\* delimiter leaves the span open, so that the lines after it are kept as
\* they are while the delimiter does not occur again, and a line with an
\* even number of occurrences leaves the span closed
C23_OddOpens ==
    TracksSpans =>
        LET ins == split(fn_in)
            out == split(fn_out)
            first == lstrip(ins[1])
        IN  \A q \in {TripleDouble, TripleSingle} :
               (/\ contains(first, q)
                /\ \A p \in {TripleDouble, TripleSingle} \ {q} : ~contains(fn_in, p))
               => IF count(first, q) % 2 = 1
                  THEN /\ TripleScan(first, 1) = [kind |-> "open", quote |-> q]
                       /\ (\A k \in 2..Len(ins) : ~contains(ins[k], q)) => fn_out = fn_in
                  ELSE TripleScan(first, 1).kind # "open"

\* C24: when a triple-quoted string is opened and never closed,
\* add_semicolons, collapse_multiline_blocks and collapse_blank_lines each
\* put out every line from the opening line to the end of the input
\* unchanged
C24_UnterminatedKept ==
    (TracksSpans \/ fn_name = "add_semicolons") =>
        LET ins == split(fn_in)
            out == split(fn_out)
        IN  \A k \in 1..Len(ins) :
               (/\ OpenBeforeLine(ins, k) = <<>>
                /\ OpenBeforeLine(ins, k + 1) # <<>>
                /\ RefSpanScan(fn_in, 1, <<>>) # <<>>
                /\ \A m \in (k + 1)..Len(ins) : OpenBeforeLine(ins, m + 1) # <<>>)
               => /\ Len(out) = Len(ins)
                  /\ \A m \in k..Len(ins) : out[m] = ins[m]

\* the text the warnings on standard error are about, once they are printed
Checked == pc = "output"

\* the lines for which a warning of kind kind about the current text is on
\* standard error
WarnedLines(kind) ==
    {stderr[n].warning.line : n \in {m \in 1..Len(stderr) :
        /\ stderr[m].kind = "warning"
        /\ stderr[m].file = Origin
        /\ stderr[m].warning.kind = kind}}

\* line k is a code line for check_indentation: not blank, not a comment
IsChecked(lines, k) == lstrip(lines[k]) # <<>> /\ ~startswith(lstrip(lines[k]), <<"#">>)

\* line k is a block opener: a code line that ends with ':'
IsOpener(lines, k) == IsChecked(lines, k) /\ endswith(rstrip(lines[k]), <<":">>)

\* the code line before line k, or 0
PrevChecked(lines, k) ==
    LET before == {m \in 1..(k - 1) : IsChecked(lines, m)}
    IN  IF before = {} THEN 0 ELSE SetMax(before)

\* line k is the first code line after a block opener
AfterOpener(lines, k) ==
    /\ IsChecked(lines, k)
    /\ PrevChecked(lines, k) # 0
    /\ IsOpener(lines, PrevChecked(lines, k))

\* C25: check_indentation reports 'Expected indentation' for the first code
\* line after a block opener exactly when that line is not indented 4
\* columns more than the opener
C25_ExpectedAfterOpener ==
    Checked =>
        LET lines == split(formatted)
        IN  \A k \in 1..Len(lines) :
               AfterOpener(lines, k) =>
                   (k \in WarnedLines("expected")
                      <=> IndentOf(lines[k]) # IndentOf(lines[PrevChecked(lines, k)]) + 4)

RECURSIVE OpenLevels(_, _)
\* the indentation levels pushed and still open after the first k lines
OpenLevels(lines, k) ==
    IF k = 0 THEN {0}
    ELSE LET levels == OpenLevels(lines, k - 1)
             indent == IndentOf(lines[k])
         IN  IF ~IsChecked(lines, k) THEN levels
             ELSE IF k > 1 /\ endswith(rstrip(lines[k - 1]), <<":">>)
             THEN IF indent > SetMax(levels) THEN levels \cup {indent} ELSE levels
             ELSE {l \in levels : l <= indent}

\* line k is a dedent: a code line indented less than the innermost open
\* level and not directly after a block opener
IsDedent(lines, k) ==
    /\ IsChecked(lines, k)
    /\ k > 1
    /\ ~endswith(rstrip(lines[k - 1]), <<":">>)
    /\ IndentOf(lines[k]) < SetMax(OpenLevels(lines, k - 1))

\* C26: on a dedent check_indentation pops the levels greater than the
\* line's indentation and reports 'does not match any outer block level'
\* exactly when the indentation is then no level that is still open
C26_DedentLevels ==
    Checked =>
        LET lines == split(formatted)
        IN  WarnedLines("no_outer_level") =
                {k \in 1..Len(lines) :
                    IsDedent(lines, k) /\ IndentOf(lines[k]) \notin OpenLevels(lines, k)}

\* the text with a dedent to an open level and one to no open level was
\* checked: only the second one drew the warning
C26_Witness ==
    /\ Checked
    /\ code = DedentText
    /\ WarnedLines("no_outer_level") = {5}

\* line is empty or holds whitespace only
IsBlank(line) == strip(line) = <<>>

\* line k lies inside a triple-quoted string or holds one of its delimiters
InOrAtString(lines, k) ==
    \/ OpenBeforeLine(lines, k) # <<>>
    \/ OpenBeforeLine(lines, k + 1) # <<>>
    \/ \E q \in {TripleDouble, TripleSingle} : contains(lines[k], q)

\* the lines collapse_blank_lines has to keep: all but a blank line outside
\* a string that follows a blank line outside a string
KeptByBlankRule(lines) ==
    {k \in 1..Len(lines) :
        ~(/\ IsBlank(lines[k]) /\ ~InOrAtString(lines, k)
          /\ k > 1 /\ IsBlank(lines[k - 1]) /\ ~InOrAtString(lines, k - 1))}

\* C27: the output of collapse_blank_lines has no two consecutive blank
\* lines outside a triple-quoted string, and every line inside a
\* triple-quoted string and every non-blank line is kept, unchanged and in
\* order
C27_BlankRuns ==
    fn_name = "collapse_blank_lines" =>
        LET ins == split(fn_in)
            out == split(fn_out)
            keep == KeptByBlankRule(ins)
            nth(n) == CHOOSE k \in keep : Cardinality({m \in keep : m < k}) = n - 1
        IN  out = [n \in 1..Cardinality(keep) |-> ins[nth(n)]]

\* position i of s starts a single- or double-quoted literal with the
\* prefix f and no placeholder: the f does not continue a word, a quote
\* follows it, the literal is closed on its line and holds no '{'
UselessFStringAt(s, i) ==
    /\ s[i] = "f"
    /\ i = 1 \/ s[i - 1] \notin WordChars \cup {"\"", "'"}
    /\ i + 1 <= Len(s)
    /\ s[i + 1] \in {"\"", "'"}
    /\ LET k == FindFrom(s, <<s[i + 1]>>, i + 2)
       IN  /\ k # 0
           /\ \A p \in (i + 2)..(k - 1) : s[p] \notin {"{", "\n"}

\* x = "hello"
PlainFStringStripped ==
    <<"x", " ", "=", " ", "\"", "h", "e", "l", "l", "o", "\"">>

\* C28: remove_useless_fstrings takes the prefix f off every single- or
\* double-quoted f-string without a placeholder and leaves everything else
\* as it is
C28_PrefixRemoved ==
    fn_name = "remove_useless_fstrings" =>
        /\ \A i \in 1..Len(fn_out) : ~UselessFStringAt(fn_out, i)
        /\ (\A i \in 1..Len(fn_in) : ~UselessFStringAt(fn_in, i)) => fn_out = fn_in
        /\ fn_in = PlainFString => fn_out = PlainFStringStripped

\* s without its whitespace
Solid(s) == SelectSeq(s, LAMBDA c : c \notin Whitespace)

\* C29: collapse_multiline_blocks only adds or removes whitespace and line
\* breaks: the non-whitespace characters of its output are those of its
\* input, in the same order
C29_OnlyWhitespace ==
    fn_name = "collapse_multiline_blocks" => Solid(fn_out) = Solid(fn_in)

\* a block with text after its closing bracket was collapsed
C29_Witness ==
    /\ fn_name = "collapse_multiline_blocks"
    /\ fn_in = LongBlock
    /\ fn_out = LongBlockCollapsed

\* C30: add_semicolons puts out one line per input line, in the same
\* order, each the input line but for terminators and spaces, and blank
\* lines and lines that start with '#' unchanged
C30_LinePerLine ==
    fn_name = "add_semicolons" =>
        LET ins == split(fn_in)
            out == split(fn_out)
            bare(line) == SelectSeq(line, LAMBDA c : c \notin {";", " "})
        IN  /\ Len(out) = Len(ins)
            /\ \A k \in 1..Len(ins) :
                  /\ bare(out[k]) = bare(ins[k])
                  /\ (IsBlank(ins[k]) \/ startswith(lstrip(ins[k]), <<"#">>))
                        => out[k] = ins[k]

\* a text with a comment line and a statement that got its terminator
\* went through add_semicolons
C30_Witness ==
    /\ fn_name = "add_semicolons"
    /\ fn_out # fn_in
    /\ Len(split(fn_out)) = 2
    /\ \E k \in 1..Len(split(fn_in)) : startswith(split(fn_in)[k], <<"#">>)

====
